---- MODULE Spec2Model ----
(***************************************************************************)
(* A model of src/AGSD.py: the script that provisions epics, stories,      *)
(* subtasks and two sprints in a remote tracker.  Every remote call of the *)
(* script is one step; the remote system answers each call with a status   *)
(* code or the transport raises an exception, chosen nondeterministically. *)
(***************************************************************************)
EXTENDS Integers, Sequences, FiniteSets, TLC

(***************************************************************************)
(* Input data of the script                                                *)
(***************************************************************************)

\* EPICS (key_name of each entry), in list order.
EPICS ==
  << "EPIC-Auth", "EPIC-UPI", "EPIC-Bill", "EPIC-History", "EPIC-Security" >>

\* STORIES: (title, epic_name, story_points), in list order.
STORIES ==
  << [title |-> "Signup with mobile number",       epic |-> "EPIC-Auth",     points |-> 3],
     [title |-> "Login using OTP/Biometric",       epic |-> "EPIC-Auth",     points |-> 2],
     [title |-> "Link bank account for UPI",       epic |-> "EPIC-Auth",     points |-> 3],
     [title |-> "Send money using UPI",            epic |-> "EPIC-UPI",      points |-> 5],
     [title |-> "Request money via UPI",           epic |-> "EPIC-UPI",      points |-> 3],
     [title |-> "View transaction status",         epic |-> "EPIC-UPI",      points |-> 2],
     [title |-> "Mobile recharge",                 epic |-> "EPIC-Bill",     points |-> 3],
     [title |-> "Pay electricity/water/DTH bills", epic |-> "EPIC-Bill",     points |-> 5],
     [title |-> "View past bills & recharges",     epic |-> "EPIC-Bill",     points |-> 2],
     [title |-> "Transaction history view",        epic |-> "EPIC-History",  points |-> 3],
     [title |-> "Download monthly statement",      epic |-> "EPIC-History",  points |-> 2],
     [title |-> "Spending insights (charts)",      epic |-> "EPIC-History",  points |-> 5],
     [title |-> "Notifications for transactions",  epic |-> "EPIC-Security", points |-> 2],
     [title |-> "Customer support and complaints", epic |-> "EPIC-Security", points |-> 3],
     [title |-> "Set PIN and biometric security",  epic |-> "EPIC-Security", points |-> 3] >>

\* The script is run on the first NumStories entries of STORIES.
NumStories == 7

StoryInput == SubSeq(STORIES, 1, IF NumStories < Len(STORIES) THEN NumStories ELSE Len(STORIES))

\* SUBTASKS_TEMPLATES: story summary -> list of subtask summaries.
SUBTASKS_TEMPLATES ==
  [t \in { "Signup with mobile number", "Login using OTP/Biometric",
           "Link bank account for UPI", "Send money using UPI" } |->
     CASE t = "Signup with mobile number" ->
            << "Design signup UI", "Implement OTP verification", "Store user data in DB" >>
       [] t = "Login using OTP/Biometric" ->
            << "Create login UI", "Integrate biometric API", "Validate OTP flow" >>
       [] t = "Link bank account for UPI" ->
            << "Integrate with UPI provider API", "Implement bank account verification",
               "Store linked bank info securely" >>
       [] t = "Send money using UPI" ->
            << "Create Send Money screen", "Integrate UPI transaction API",
               "Add success/failure messages" >> ]

\* The lookup without its default: no subtasks for a story without an entry.
TemplatesWithoutFallback(story_title) ==
  IF story_title \in DOMAIN SUBTASKS_TEMPLATES
    THEN SUBTASKS_TEMPLATES[story_title]
    ELSE <<>>

\* The lookup that always yields the three generic summaries.
TemplatesGenericOnly(story_title) ==
  << "Design <title> UI", "Implement backend for <title>", "Add tests for <title>" >>

\* SUBTASKS_TEMPLATES.get(story_title, [three generic summaries]).
Templates(story_title) ==
  IF story_title \in DOMAIN SUBTASKS_TEMPLATES
    THEN SUBTASKS_TEMPLATES[story_title]
    ELSE << "Design <title> UI", "Implement backend for <title>", "Add tests for <title>" >>

\* SCREENSHOT_PATHS.
SCREENSHOT_PATHS ==
  << "/mnt/data/c4637667-912d-473a-99a8-2596acfd8ed4.png",
     "/mnt/data/9d490c95-50a1-44c6-a9c7-e3874177ebdf.png" >>

\* The static candidate list of link_story_to_epic.
StaticCandidates == << "customfield_10014", "customfield_10011", "Epic Link", "epic-link" >>

\* The cut of the sprint partition: "if i < 6" over enumerate(STORIES).
SprintOneSize == 6

\* timedelta(days=14) and timedelta(days=1) of the sprint dates, in days.
SprintDays == 14
SprintGap == 1

(***************************************************************************)
(* The remote system                                                       *)
(***************************************************************************)

\* Status codes a response may carry; Raised stands for the transport
\* raising an exception instead of returning a response.
StatusCodes == {200, 201, 204, 400}
Raised == -1
Responses == StatusCodes \cup {Raised}

\* A success test that accepts 204 for a creation as well.
CreateOkAny2xx(status) == status \in {200, 201, 204}

\* The success tests of the helper functions.
CreateOk(status) == status \in {200, 201}
UpdateOk(status) == status \in {200, 204}
SprintAddOk(status) == status \in {200, 204}
FetchOk(status) == status = 200

\* The board the lookup can find, or the one configured in BOARD_ID.
TheBoard == 7

\* Field definitions a createmeta response may list: id and label ("" for
\* a definition without a "name").
MetaFieldIds == {"customfield_10014", "customfield_10100"}
MetaLabels == {"Epic Link", "EPIC LINK", "Epic", "Epic Name", ""}

\* str.lower() on the labels above.
Lower(s) ==
  CASE s = "Epic Link" -> "epic link"
    [] s = "EPIC LINK" -> "epic link"
    [] s = "Epic" -> "epic"
    [] s = "Epic Name" -> "epic name"
    [] OTHER -> s

MetaField == [id : MetaFieldIds, name : MetaLabels]

\* The fields of the first issue type of a createmeta response, in
\* iteration order.
MaxMetaFields == 2
MetaBodies == UNION { [1..n -> MetaField] : n \in 0..MaxMetaFields }

VARIABLES
  config,           \* which of JIRA_URL, JIRA_EMAIL, JIRA_API_TOKEN, PROJECT_KEY are set
  BOARD_ID,         \* 0 when unset
  pc,               \* where the script is
  exit_code,        \* -1 while running, else the exit status of the process
  created_epics,    \* dict in insertion order: <<[name, key]>>
  created_stories,  \* dict in insertion order: <<[title, key]>>
  i,                \* index of the running loop of main
  j,                \* index of the inner loop (candidate, template)
  candidate_fields, \* local of link_story_to_epic
  linked,           \* local of main: "unset", "True", "False"
  sprint1,          \* id of sprint 1, 0 when None or unbound
  sprint2,
  sprint1_keys,
  sprint2_keys,
  remoteSeq,        \* number of create calls the remote system has received
  lastCall,         \* the most recent remote call
  lastStatus,       \* its response: a status code, Raised, or 0 before any call
  lastPrint,        \* the most recent printed line
  tried,            \* updates of the running link_story_to_epic: <<[field, ok]>>
  metaSeen,         \* what its createmeta response listed (see LinkMeta)
  attempts,         \* remote calls issued so far, counted per operation
  returned,         \* keys and ids the remote system has returned, per kind
  subtasked,        \* <<parent key, summary>> of every create_subtask call
  sprinted,         \* the keys passed in add_issues_to_sprint calls
  summary,          \* what the closing prints of main show, <<>> before them
  USERS,            \* src/frontend/app.py: phone -> its dict in `objects`, 0 when absent
  objects,          \* the dicts created for USERS, in order of creation
  session,          \* client -> session["phone"], NoPhone when not set
  request           \* client -> the request a handler is running for it

vars ==
  << config, BOARD_ID, pc, exit_code, created_epics, created_stories, i, j,
     candidate_fields, linked, sprint1, sprint2, sprint1_keys, sprint2_keys,
     remoteSeq, lastCall, lastStatus, lastPrint, tried, metaSeen, attempts,
     returned, subtasked, sprinted, summary, USERS, objects, session, request >>

\* The state of the web demo.
web == << USERS, objects, session, request >>

\* A remote call: operation, issue type, summary or sprint name, the key or
\* id it addresses, the parent key, the field it sets and the key it sets
\* it to, the keys it passes as a list, the board it names, and the sprint
\* dates in days after utcnow().
NoCall ==
  [op |-> "none", kind |-> "", name |-> "", target |-> 0, parent |-> 0,
   field |-> "", value |-> 0, keys |-> <<>>, board |-> 0, start |-> 0, end |-> 0]

\* The operations counted in attempts: every remote call after INIT.
Operations ==
  { "create_epic", "create_story", "link", "get_meta", "create_subtask",
    "create_sprint", "add_to_sprint", "attach", "sprint_report", "velocity" }

Count(op) == [attempts EXCEPT ![op] = @ + 1]

\* The id of the first field of a createmeta body whose label is in
\* `labels`, "" when there is none.
FirstLabelled(body, labels) ==
  IF \E k \in 1..Len(body) : body[k].name \in labels
    THEN body[CHOOSE k \in 1..Len(body) :
                /\ body[k].name \in labels
                /\ \A m \in 1..(k - 1) : body[m].name \notin labels].id
    ELSE ""

\* No createmeta response at hand.
NoMeta == [epicLink |-> "", epicLike |-> ""]

(***************************************************************************)
(* Exceptions                                                              *)
(***************************************************************************)

\* create_issue without its test of the status code.
IssueCreateIgnoresStatus(status) ==
  IF status = Raised THEN "Exception" ELSE "none"

\* What create_issue raises for a response: the transport's exception, or
\* SystemExit for a status outside (200, 201).
IssueCreateRaises(status) ==
  IF status = Raised THEN "Exception"
  ELSE IF ~CreateOk(status) THEN "SystemExit"
  ELSE "none"

\* "except Exception" catches Exception; SystemExit derives from
\* BaseException and passes through it.
CaughtByExceptException(e) == e = "Exception"

\* The lines a failed create_issue leaves on the console when nothing
\* catches it: its own print and SystemExit's message, or the traceback of
\* the handler under __main__.
UncaughtLines(e) ==
  IF e = "SystemExit"
    THEN << "Error creating issue", "Issue creation failed. Check credentials/permissions." >>
    ELSE << "traceback" >>

(***************************************************************************)
(* Control flow of main                                                    *)
(***************************************************************************)

Exited == [pc |-> "exited", i |-> i, j |-> j]

Goto(nx) == pc' = nx.pc /\ i' = nx.i /\ j' = nx.j

\* The report phase entered whenever a board is available.
AfterAttachAnySprint(s1) ==
  IF BOARD_ID # 0
    THEN [pc |-> "report", i |-> 0, j |-> 0]
    ELSE [pc |-> "summary", i |-> 0, j |-> 0]

\* After the report phase, or when it is skipped.
AfterAttach(s1) ==
  IF BOARD_ID # 0 /\ s1 # 0
    THEN [pc |-> "report", i |-> 0, j |-> 0]
    ELSE [pc |-> "summary", i |-> 0, j |-> 0]

\* "if created_epics:" before the attachment loop.
AfterMembership(s1) ==
  IF created_epics # <<>>
    THEN [pc |-> "attach", i |-> 1, j |-> 0]
    ELSE AfterAttach(s1)

\* The first add_issues_to_sprint call without its guard.
AfterSprint2Unguarded(s1, s2) == [pc |-> "add1", i |-> 0, j |-> 0]

\* The two guarded add_issues_to_sprint calls.
AfterSprint2(s1, s2) ==
  IF s1 # 0 THEN [pc |-> "add1", i |-> 0, j |-> 0]
  ELSE IF s2 # 0 THEN [pc |-> "add2", i |-> 0, j |-> 0]
  ELSE AfterMembership(s1)

AfterAdd1(s2) ==
  IF s2 # 0 THEN [pc |-> "add2", i |-> 0, j |-> 0] ELSE AfterMembership(sprint1)

\* The sprint phase entered without the test of BOARD_ID.
AfterSubtasksAlwaysSprints == [pc |-> "sprint1", i |-> 0, j |-> 0]

\* "if BOARD_ID:" after the subtask loop.
AfterSubtasks ==
  IF BOARD_ID # 0
    THEN [pc |-> "sprint1", i |-> 0, j |-> 0]
    ELSE AfterMembership(0)

\* The subtask loop runs over created_stories.
EnterSubtasks(stories) ==
  IF stories # <<>> THEN [pc |-> "subtasks", i |-> 1, j |-> 1] ELSE AfterSubtasks

\* The story loop ending one definition early.
AfterStoryEarly(k, stories) ==
  IF k + 1 < Len(StoryInput)
    THEN [pc |-> "stories", i |-> k + 1, j |-> 0]
    ELSE EnterSubtasks(stories)

\* The next iteration of the story loop, or the phase after it.
AfterStory(k, stories) ==
  IF k < Len(StoryInput)
    THEN [pc |-> "stories", i |-> k + 1, j |-> 0]
    ELSE EnterSubtasks(stories)

\* The epic loop issuing the create call of its first epic a second time.
AfterEpicAgain(k) ==
  IF attempts["create_epic"] < k THEN [pc |-> "epics", i |-> k, j |-> 0]
  ELSE IF k < Len(EPICS) THEN [pc |-> "epics", i |-> k + 1, j |-> 0]
  ELSE IF StoryInput # <<>> THEN [pc |-> "stories", i |-> 1, j |-> 0]
  ELSE EnterSubtasks(<<>>)

\* The epic loop ending once the remote system holds a full set of epics.
AfterEpicSkipsExisting(k) ==
  IF k < Len(EPICS) /\ Cardinality(returned["Epic"]) < Len(EPICS)
    THEN [pc |-> "epics", i |-> k + 1, j |-> 0]
  ELSE IF StoryInput # <<>> THEN [pc |-> "stories", i |-> 1, j |-> 0]
  ELSE EnterSubtasks(<<>>)

\* The next iteration of the epic loop, or the story loop.
AfterEpic(k) ==
  IF k < Len(EPICS) THEN [pc |-> "epics", i |-> k + 1, j |-> 0]
  ELSE IF StoryInput # <<>> THEN [pc |-> "stories", i |-> 1, j |-> 0]
  ELSE EnterSubtasks(<<>>)

(***************************************************************************)
(* Initial state                                                           *)
(***************************************************************************)

ConfigNames == {"JIRA_URL", "JIRA_EMAIL", "JIRA_API_TOKEN", "PROJECT_KEY"}

\* The web demo: the phones requests name, the clients (one session
\* cookie and one request at a time each), and the values uuid4().int %
\* 1000000, zero-filled, may take.
Phones == {"9000000001", "9000000002"}
Clients == {1, 2}
Otps == {"000001", "000002"}

\* request.form.get(...) of a field the form does not carry, and
\* dict.get("otp") of a dict without that key: None.
NoPhone == "None"
NoOtp == "None"

\* The dicts a run of the demo creates for USERS.
MaxObjects == 3

\* No request of the client is being handled.
Idle == [handler |-> "idle", phone |-> NoPhone, otp |-> NoOtp, user |-> 0, line |-> "none"]

\* The stores of the demo when the server starts.
WebStart ==
  /\ USERS = [p \in Phones |-> 0]
  /\ objects = <<>>
  /\ session = [c \in Clients |-> NoPhone]
  /\ request = [c \in Clients |-> Idle]

Init ==
  /\ config \in [ConfigNames -> BOOLEAN]
  /\ BOARD_ID \in {0, TheBoard}
  /\ pc = "startup"
  /\ exit_code = -1
  /\ created_epics = <<>>
  /\ created_stories = <<>>
  /\ i = 0
  /\ j = 0
  /\ candidate_fields = <<>>
  /\ linked = "unset"
  /\ sprint1 = 0
  /\ sprint2 = 0
  /\ sprint1_keys = <<>>
  /\ sprint2_keys = <<>>
  /\ remoteSeq = 0
  /\ lastCall = NoCall
  /\ lastStatus = 0
  /\ lastPrint = <<>>
  /\ tried = <<>>
  /\ metaSeen = NoMeta
  /\ attempts = [op \in Operations |-> 0]
  /\ returned = [kind \in {"Epic", "Story", "Sprint"} |-> {}]
  /\ subtasked = {}
  /\ sprinted = {}
  /\ summary = <<>>
  /\ WebStart

(***************************************************************************)
(* Startup and INIT                                                        *)
(***************************************************************************)

\* main() entered without the configuration check.
StartupUnchecked ==
  /\ pc = "startup"
  /\ pc' = IF BOARD_ID = 0 THEN "init" ELSE "epics"
  /\ i' = IF BOARD_ID # 0 THEN 1 ELSE i
  /\ lastPrint' = IF BOARD_ID = 0 THEN << "BOARD_ID not provided" >>
                   ELSE << "--- Creating Epics ---" >>
  /\ UNCHANGED << web, config, summary, BOARD_ID, exit_code, created_epics, created_stories,
                  j, candidate_fields, linked, sprint1, sprint2, sprint1_keys,
                  sprint2_keys, remoteSeq, lastCall, lastStatus, tried, metaSeen,
                  attempts, returned, subtasked, sprinted >>

\* The configuration check at import time, then main() up to its test of
\* BOARD_ID.
Startup ==
  /\ pc = "startup"
  /\ LET complete == \A n \in ConfigNames : config[n] IN
       /\ pc' = IF ~complete THEN "exited"
                ELSE IF BOARD_ID = 0 THEN "init" ELSE "epics"
       /\ i' = IF complete /\ BOARD_ID # 0 THEN 1 ELSE i
       /\ exit_code' = IF complete THEN exit_code ELSE 1
       /\ lastPrint' = IF complete
                         THEN IF BOARD_ID = 0 THEN << "BOARD_ID not provided" >>
                              ELSE << "--- Creating Epics ---" >>
                         ELSE << "Please set JIRA_URL, JIRA_EMAIL, and JIRA_API_TOKEN" >>
  /\ UNCHANGED << web, config, summary, BOARD_ID, created_epics, created_stories, j,
                  candidate_fields, linked, sprint1, sprint2, sprint1_keys,
                  sprint2_keys, remoteSeq, lastCall, lastStatus, tried, metaSeen,
                  attempts, returned, subtasked, sprinted >>

\* get_board_for_project and the branch of main that uses its result.
GetBoard ==
  /\ pc = "init"
  /\ BOARD_ID = 0
  /\ \E status \in Responses, boards \in {<<>>, <<TheBoard>>} :
       /\ (status # 200 => boards = <<>>)
       /\ lastCall' = [NoCall EXCEPT !.op = "get_board"]
       /\ lastStatus' = status
       /\ BOARD_ID' = IF status = 200 /\ boards # <<>> THEN boards[1] ELSE BOARD_ID
       /\ Goto(IF status = Raised THEN Exited ELSE [pc |-> "epics", i |-> 1, j |-> 0])
       /\ exit_code' = IF status = Raised THEN 1 ELSE exit_code
       /\ lastPrint' =
            IF status = Raised THEN << "traceback" >>
            ELSE IF status # 200 THEN << "Cannot fetch board for project", "No board found" >>
            ELSE IF boards = <<>> THEN << "No boards found for project", "No board found" >>
            ELSE << "Found board", "--- Creating Epics ---" >>
  /\ UNCHANGED << web, config, summary, created_epics, created_stories, candidate_fields, linked,
                  sprint1, sprint2, sprint1_keys, sprint2_keys, remoteSeq, tried,
                  metaSeen, attempts, returned, subtasked, sprinted >>

(***************************************************************************)
(* CREATE_EPICS                                                            *)
(***************************************************************************)

\* One iteration of "for epic in EPICS": create_epic, create_issue and the
\* insertion into created_epics.
CreateEpic ==
  /\ pc = "epics"
  /\ i \in 1..Len(EPICS)
  /\ \E status \in Responses :
       LET e == IssueCreateRaises(status) IN
       /\ lastCall' = [NoCall EXCEPT !.op = "create_issue", !.kind = "Epic",
                                     !.name = EPICS[i], !.field = "customfield_10011"]
       /\ lastStatus' = status
       /\ remoteSeq' = remoteSeq + 1
       /\ attempts' = Count("create_epic")
       /\ returned' = IF status # Raised /\ CreateOk(status)
                        THEN [returned EXCEPT !["Epic"] = @ \cup {remoteSeq + 1}]
                        ELSE returned
       /\ created_epics' =
            IF e = "none"
              THEN Append(created_epics, [name |-> EPICS[i], key |-> remoteSeq + 1])
              ELSE created_epics
       /\ Goto(IF e = "none" THEN AfterEpic(i) ELSE Exited)
       /\ exit_code' = IF e = "none" THEN exit_code ELSE 1
       /\ lastPrint' = IF e = "none" THEN << "Created Epic" >> ELSE UncaughtLines(e)
  /\ UNCHANGED << web, config, summary, BOARD_ID, created_stories, candidate_fields, linked,
                  sprint1, sprint2, sprint1_keys, sprint2_keys, tried, metaSeen,
                  subtasked, sprinted >>

(***************************************************************************)
(* CREATE_STORIES_AND_LINK                                                 *)
(***************************************************************************)

\* created_epics[epic_keyname]["key"]; 0 stands for the KeyError.
EpicKey(epics, epic_keyname) ==
  IF \E k \in 1..Len(epics) : epics[k].name = epic_keyname
    THEN epics[CHOOSE k \in 1..Len(epics) : epics[k].name = epic_keyname].key
    ELSE 0

\* link_story_to_epic with a cache: no createmeta query once a story has
\* been linked.
LinkStartCached(k) ==
  IF linked = "True"
    THEN [pc |-> "link_put", i |-> k, j |-> 1]
    ELSE [pc |-> "link_meta", i |-> k, j |-> 0]

\* Where link_story_to_epic starts: at its createmeta query, on every call.
LinkStart(k) == [pc |-> "link_meta", i |-> k, j |-> 0]

\* The head of one iteration of "for title, epic_keyname, points in
\* STORIES": create_issue, the insertion into created_stories and the
\* lookup of the epic's key, under the loop's try/except.
CreateStory ==
  /\ pc = "stories"
  /\ i \in 1..Len(StoryInput)
  /\ \E status \in Responses :
       LET e == IssueCreateRaises(status)
           stories == IF e = "none"
                        THEN Append(created_stories,
                                    [title |-> StoryInput[i].title, key |-> remoteSeq + 1])
                        ELSE created_stories
           keyError == e = "none" /\ EpicKey(created_epics, StoryInput[i].epic) = 0
           caught == (e # "none" /\ CaughtByExceptException(e)) \/ keyError
           links == e = "none" /\ ~keyError
       IN
       /\ lastCall' = [NoCall EXCEPT !.op = "create_issue", !.kind = "Story",
                                     !.name = StoryInput[i].title]
       /\ lastStatus' = status
       /\ remoteSeq' = remoteSeq + 1
       /\ attempts' = [attempts EXCEPT !["create_story"] = @ + 1,
                                       !["link"] = IF links THEN @ + 1 ELSE @]
       /\ returned' = IF status # Raised /\ CreateOk(status)
                        THEN [returned EXCEPT !["Story"] = @ \cup {remoteSeq + 1}]
                        ELSE returned
       /\ created_stories' = stories
       /\ Goto(IF caught THEN AfterStory(i, stories)
               ELSE IF e # "none" THEN Exited
               ELSE LinkStart(i))
       /\ exit_code' = IF e # "none" /\ ~caught THEN 1 ELSE exit_code
       /\ lastPrint' = IF caught THEN << "Failed to create story" >>
                       ELSE IF e # "none" THEN UncaughtLines(e)
                       ELSE <<>>
  /\ candidate_fields' = <<>>
  /\ tried' = <<>>
  /\ metaSeen' = NoMeta
  /\ UNCHANGED << web, config, summary, BOARD_ID, created_epics, linked, sprint1, sprint2,
                  sprint1_keys, sprint2_keys, subtasked, sprinted >>

\* The labels the metadata scan accepts.
EpicLinkLabels == {"epic link", "epic"}

\* The scan appending the discovered id instead of inserting it at 0.
DiscoverAppends(body) ==
  IF \E k \in 1..Len(body) : Lower(body[k].name) \in EpicLinkLabels
    THEN LET first == CHOOSE k \in 1..Len(body) :
                        /\ Lower(body[k].name) \in EpicLinkLabels
                        /\ \A m \in 1..(k - 1) : Lower(body[m].name) \notin EpicLinkLabels
         IN StaticCandidates \o << body[first].id >>
    ELSE StaticCandidates

\* The scan of the createmeta fields: the first accepted label's id is
\* inserted at the head of the candidate list.
Discover(body) ==
  IF \E k \in 1..Len(body) : Lower(body[k].name) \in EpicLinkLabels
    THEN LET first == CHOOSE k \in 1..Len(body) :
                        /\ Lower(body[k].name) \in EpicLinkLabels
                        /\ \A m \in 1..(k - 1) : Lower(body[m].name) \notin EpicLinkLabels
         IN << body[first].id >> \o StaticCandidates
    ELSE StaticCandidates

\* link_story_to_epic up to its candidate loop: the createmeta query.  A
\* 200 response that does not parse leaves the static list (except: pass).
\* metaSeen keeps, of a parsed 200 response, the id of the first field
\* labelled "Epic Link" in any case, and of the first labelled so or "Epic".
LinkMeta ==
  /\ pc = "link_meta"
  /\ \E status \in Responses, parses \in BOOLEAN, body \in MetaBodies :
       /\ (status # 200 => parses /\ body = <<>>)
       /\ (~parses => body = <<>>)
       /\ lastCall' = [NoCall EXCEPT !.op = "get_meta", !.kind = "Story"]
       /\ lastStatus' = status
       /\ attempts' = Count("get_meta")
       /\ metaSeen' =
            IF status = 200 /\ parses
              THEN [epicLink |-> FirstLabelled(body, {"Epic Link", "EPIC LINK"}),
                    epicLike |-> FirstLabelled(body, {"Epic Link", "EPIC LINK", "Epic"})]
              ELSE NoMeta
       /\ candidate_fields' =
            IF status = Raised THEN <<>>
            ELSE IF status = 200 /\ parses THEN Discover(body)
            ELSE StaticCandidates
       /\ Goto(IF status = Raised
                 THEN AfterStory(i, created_stories)
                 ELSE [pc |-> "link_put", i |-> i, j |-> 1])
       /\ lastPrint' = IF status = Raised THEN << "Failed to create story" >> ELSE <<>>
  /\ tried' = <<>>
  /\ UNCHANGED << web, config, summary, BOARD_ID, exit_code, created_epics, created_stories, linked,
                  sprint1, sprint2, sprint1_keys, sprint2_keys, remoteSeq, returned,
                  subtasked, sprinted >>

\* The candidate loop without its "return True": it goes on after a
\* successful update.
PutResultKeepsGoing(status, k, n) ==
  IF status = Raised THEN "Exception"
  ELSE IF k < n THEN "next"
  ELSE IF UpdateOk(status) THEN "True"
  ELSE "False"

\* The candidate loop raising SystemExit, as create_issue does, when the
\* last candidate has failed.
PutResultExits(status, k, n) ==
  IF status = Raised THEN "Exception"
  ELSE IF UpdateOk(status) THEN "True"
  ELSE IF k = n THEN "SystemExit"
  ELSE "next"

\* What one iteration of "for field in candidate_fields" does with the
\* response to its update, for candidate k of n: go on with the next
\* candidate, return True, return False after the last one, or let the
\* transport's exception pass.
PutResult(status, k, n) ==
  IF status = Raised THEN "Exception"
  ELSE IF UpdateOk(status) THEN "True"
  ELSE IF k = n THEN "False"
  ELSE "next"

\* One iteration of "for field in candidate_fields": the update of the
\* story, and the return of link_story_to_epic into the story loop.
LinkPut ==
  /\ pc = "link_put"
  /\ j \in 1..Len(candidate_fields)
  /\ \E status \in Responses :
       LET field == candidate_fields[j]
           story_key == created_stories[Len(created_stories)].key
           epic_key == EpicKey(created_epics, StoryInput[i].epic)
           result == PutResult(status, j, Len(candidate_fields))
           raises == result \in {"Exception", "SystemExit"}
       IN
       /\ lastCall' = [NoCall EXCEPT !.op = "update_issue", !.kind = "Story",
                                     !.target = story_key, !.field = field,
                                     !.value = epic_key]
       /\ lastStatus' = status
       /\ tried' = Append(tried, [field |-> field,
                                  ok |-> status # Raised /\ UpdateOk(status)])
       /\ linked' = IF result \in {"True", "False"} THEN result ELSE linked
       /\ Goto(IF result = "next" THEN [pc |-> "link_put", i |-> i, j |-> j + 1]
               ELSE IF raises /\ ~CaughtByExceptException(result) THEN Exited
               ELSE AfterStory(i, created_stories))
       /\ exit_code' = IF raises /\ ~CaughtByExceptException(result) THEN 1 ELSE exit_code
       /\ lastPrint' = IF raises
                         THEN IF CaughtByExceptException(result)
                                THEN << "Failed to create story" >>
                                ELSE << "traceback" >>
                       ELSE IF result = "True" THEN << "Linked story" >>
                       ELSE IF result = "False"
                         THEN << "Failed to auto-link story to epic", "Response sample" >>
                       ELSE <<>>
  /\ UNCHANGED << web, config, summary, BOARD_ID, created_epics, created_stories, candidate_fields,
                  sprint1, sprint2, sprint1_keys, sprint2_keys, remoteSeq, metaSeen,
                  attempts, returned, subtasked, sprinted >>

(***************************************************************************)
(* CREATE_SUBTASKS                                                         *)
(***************************************************************************)

\* One create_subtask call of the loops over created_stories.items() and
\* the story's templates.  Its result is not kept by main.
CreateSubtask ==
  /\ pc = "subtasks"
  /\ i \in 1..Len(created_stories)
  /\ j \in 1..Len(Templates(created_stories[i].title))
  /\ \E status \in Responses :
       LET templates == Templates(created_stories[i].title)
           more == IF j < Len(templates) THEN [pc |-> "subtasks", i |-> i, j |-> j + 1]
                   ELSE IF i < Len(created_stories)
                     THEN [pc |-> "subtasks", i |-> i + 1, j |-> 1]
                   ELSE AfterSubtasks
       IN
       /\ lastCall' = [NoCall EXCEPT !.op = "create_subtask", !.kind = "Sub-task",
                                     !.name = templates[j],
                                     !.parent = created_stories[i].key]
       /\ lastStatus' = status
       /\ remoteSeq' = remoteSeq + 1
       /\ attempts' = Count("create_subtask")
       /\ subtasked' = subtasked \cup { << created_stories[i].key, templates[j] >> }
       /\ Goto(IF status = Raised THEN Exited ELSE more)
       /\ exit_code' = IF status = Raised THEN 1 ELSE exit_code
       /\ lastPrint' = IF status = Raised THEN << "traceback" >>
                       ELSE IF CreateOk(status) THEN << "Created subtask" >>
                       ELSE << "Subtask creation failed" >>
  /\ candidate_fields' = <<>>
  /\ tried' = <<>>
  /\ metaSeen' = NoMeta
  /\ UNCHANGED << web, config, summary, BOARD_ID, created_epics, created_stories, linked, sprint1,
                  sprint2, sprint1_keys, sprint2_keys, returned, sprinted >>

(***************************************************************************)
(* CREATE_SPRINTS and ASSIGN_SPRINT_MEMBERSHIP                             *)
(***************************************************************************)

\* created_stories.get(title, {}).get("key"); 0 stands for None.
StoryKey(stories, title) ==
  IF \E k \in 1..Len(stories) : stories[k].title = title
    THEN stories[CHOOSE k \in 1..Len(stories) : stories[k].title = title].key
    ELSE 0

\* The partition loop without "if not key: continue".
RECURSIVE KeysOfKeepsNone(_, _, _)
KeysOfKeepsNone(stories, lo, hi) ==
  IF lo > hi THEN <<>>
  ELSE << StoryKey(stories, StoryInput[lo].title) >> \o KeysOfKeepsNone(stories, lo + 1, hi)

\* The keys appended by "for i, (title, _, _) in enumerate(STORIES)" for
\* the definitions at positions lo..hi (from 1), in that order.
RECURSIVE KeysOf(_, _, _)
KeysOf(stories, lo, hi) ==
  IF lo > hi THEN <<>>
  ELSE LET key == StoryKey(stories, StoryInput[lo].title) IN
       (IF key = 0 THEN <<>> ELSE << key >>) \o KeysOf(stories, lo + 1, hi)

\* The cut of the partition taken one position early.
InSprintOneOffByOne(pos) == pos < SprintOneSize

\* The branch "if i < 6" of that loop, i counting from 0.
InSprintOne(pos) == pos - 1 < SprintOneSize

Sprint1Keys(stories) ==
  KeysOf(stories, 1, Cardinality({p \in 1..Len(StoryInput) : InSprintOne(p)}))

Sprint2Keys(stories) ==
  KeysOf(stories, Cardinality({p \in 1..Len(StoryInput) : InSprintOne(p)}) + 1,
         Len(StoryInput))

\* create_sprint: SystemExit when BOARD_ID is not set, else the call; the
\* id of the created sprint, or 0 for None.
SprintStep(name, goal, start, status) ==
  LET exits == BOARD_ID = 0
      fails == exits \/ status = Raised
  IN
  /\ lastCall' = IF exits THEN lastCall
                 ELSE [NoCall EXCEPT !.op = "create_sprint", !.name = name,
                                     !.field = goal, !.board = BOARD_ID,
                                     !.start = start, !.end = start + SprintDays]
  /\ lastStatus' = IF exits THEN lastStatus ELSE status
  /\ remoteSeq' = IF exits THEN remoteSeq ELSE remoteSeq + 1
  /\ attempts' = IF exits THEN attempts ELSE Count("create_sprint")
  /\ returned' = IF ~fails /\ CreateOk(status)
                   THEN [returned EXCEPT !["Sprint"] = @ \cup {remoteSeq + 1}]
                   ELSE returned
  /\ exit_code' = IF fails THEN 1 ELSE exit_code
  /\ lastPrint' = IF exits THEN << "BOARD_ID not set. Cannot create sprint." >>
                  ELSE IF status = Raised THEN << "traceback" >>
                  ELSE IF CreateOk(status) THEN << "Created sprint" >>
                  ELSE << "Sprint creation failed" >>

\* The first create_sprint of main.
CreateSprint1 ==
  /\ pc = "sprint1"
  /\ \E status \in Responses :
       /\ SprintStep("Sprint 1 - Core Functionality", "Onboarding + UPI basics", 0, status)
       /\ sprint1' = IF BOARD_ID # 0 /\ status # Raised /\ CreateOk(status)
                       THEN remoteSeq + 1 ELSE 0
       /\ Goto(IF BOARD_ID = 0 \/ status = Raised
                 THEN Exited ELSE [pc |-> "sprint2", i |-> 0, j |-> 0])
  /\ candidate_fields' = <<>>
  /\ tried' = <<>>
  /\ metaSeen' = NoMeta
  /\ UNCHANGED << web, config, summary, BOARD_ID, created_epics, created_stories, linked, sprint2,
                  sprint1_keys, sprint2_keys, subtasked, sprinted >>

\* The second create_sprint starting on the day sprint 1 ends.
CreateSprint2Overlapping ==
  /\ pc = "sprint2"
  /\ \E status \in Responses :
       LET fails == BOARD_ID = 0 \/ status = Raised
           s2 == IF ~fails /\ CreateOk(status) THEN remoteSeq + 1 ELSE 0
       IN
       /\ SprintStep("Sprint 2 - Enhancements & Support", "Recharge, Analytics, Support",
                     SprintDays, status)
       /\ sprint2' = s2
       /\ sprint1_keys' = IF fails THEN sprint1_keys ELSE Sprint1Keys(created_stories)
       /\ sprint2_keys' = IF fails THEN sprint2_keys ELSE Sprint2Keys(created_stories)
       /\ Goto(IF fails THEN Exited ELSE AfterSprint2(sprint1, s2))
  /\ UNCHANGED << web, config, summary, BOARD_ID, created_epics, created_stories,
                  candidate_fields, linked, sprint1, tried, metaSeen, subtasked, sprinted >>

\* The second create_sprint, then the loop that fills sprint1_keys and
\* sprint2_keys.
CreateSprint2 ==
  /\ pc = "sprint2"
  /\ \E status \in Responses :
       LET fails == BOARD_ID = 0 \/ status = Raised
           s2 == IF ~fails /\ CreateOk(status) THEN remoteSeq + 1 ELSE 0
       IN
       /\ SprintStep("Sprint 2 - Enhancements & Support", "Recharge, Analytics, Support",
                     SprintDays + SprintGap, status)
       /\ sprint2' = s2
       /\ sprint1_keys' = IF fails THEN sprint1_keys ELSE Sprint1Keys(created_stories)
       /\ sprint2_keys' = IF fails THEN sprint2_keys ELSE Sprint2Keys(created_stories)
       /\ Goto(IF fails THEN Exited ELSE AfterSprint2(sprint1, s2))
  /\ UNCHANGED << web, config, summary, BOARD_ID, created_epics, created_stories, candidate_fields,
                  linked, sprint1, tried, metaSeen, subtasked, sprinted >>

\* add_issues_to_sprint(sprint_id, issue_keys).
AddStep(sprint_id, issue_keys, status) ==
  /\ lastCall' = [NoCall EXCEPT !.op = "add_to_sprint", !.target = sprint_id,
                                !.keys = issue_keys]
  /\ lastStatus' = status
  /\ attempts' = Count("add_to_sprint")
  /\ sprinted' = sprinted \cup { issue_keys[k] : k \in 1..Len(issue_keys) }
  /\ exit_code' = IF status = Raised THEN 1 ELSE exit_code
  /\ lastPrint' = IF status = Raised THEN << "traceback" >>
                  ELSE IF SprintAddOk(status) THEN << "Added issues to sprint" >>
                  ELSE << "Failed to add issues to sprint" >>

\* "if sprint1 and sprint1.get('id'): add_issues_to_sprint(...)".
AddToSprint1 ==
  /\ pc = "add1"
  /\ \E status \in Responses :
       /\ AddStep(sprint1, sprint1_keys, status)
       /\ Goto(IF status = Raised THEN Exited ELSE AfterAdd1(sprint2))
  /\ UNCHANGED << web, config, summary, BOARD_ID, created_epics, created_stories, candidate_fields,
                  linked, sprint1, sprint2, sprint1_keys, sprint2_keys, remoteSeq, tried,
                  metaSeen, returned, subtasked >>

\* "if sprint2 and sprint2.get('id'): add_issues_to_sprint(...)".
AddToSprint2 ==
  /\ pc = "add2"
  /\ \E status \in Responses :
       /\ AddStep(sprint2, sprint2_keys, status)
       /\ Goto(IF status = Raised THEN Exited ELSE AfterMembership(sprint1))
  /\ UNCHANGED << web, config, summary, BOARD_ID, created_epics, created_stories, candidate_fields,
                  linked, sprint1, sprint2, sprint1_keys, sprint2_keys, remoteSeq, tried,
                  metaSeen, returned, subtasked >>

(***************************************************************************)
(* ATTACH_ARTIFACTS, REPORT and the summary                                *)
(***************************************************************************)

\* The key of the epic created last.
LastEpicKey(epics) == epics[Len(epics)].key

\* next(iter(created_epics.values()))["key"].
FirstEpicKey(epics) == epics[1].key

\* One iteration of "for path in SCREENSHOT_PATHS": os.path.exists in main,
\* again in add_attachment, then the upload under add_attachment's try.
Attach ==
  /\ pc = "attach"
  /\ i \in 1..Len(SCREENSHOT_PATHS)
  /\ \E exists \in BOOLEAN, stillExists \in BOOLEAN, status \in Responses :
       LET uploads == exists /\ stillExists IN
       /\ (~exists => stillExists)
       /\ (~uploads => status = 200)
       /\ lastCall' = IF uploads
                        THEN [NoCall EXCEPT !.op = "attach",
                                            !.target = FirstEpicKey(created_epics),
                                            !.name = SCREENSHOT_PATHS[i]]
                        ELSE lastCall
       /\ lastStatus' = IF uploads THEN status ELSE lastStatus
       /\ attempts' = IF uploads THEN Count("attach") ELSE attempts
       /\ lastPrint' = IF ~exists THEN << "Screenshot not found at path" >>
                       ELSE IF ~stillExists THEN << "Attachment file not found" >>
                       ELSE IF status = Raised THEN << "Error attaching file" >>
                       ELSE IF CreateOk(status) THEN << "Attached" >>
                       ELSE << "Failed to attach" >>
       /\ Goto(IF i < Len(SCREENSHOT_PATHS)
                 THEN [pc |-> "attach", i |-> i + 1, j |-> 0]
                 ELSE AfterAttach(sprint1))
  /\ candidate_fields' = <<>>
  /\ tried' = <<>>
  /\ metaSeen' = NoMeta
  /\ UNCHANGED << web, config, summary, BOARD_ID, exit_code, created_epics, created_stories, linked,
                  sprint1, sprint2, sprint1_keys, sprint2_keys, remoteSeq, returned,
                  subtasked, sprinted >>

\* fetch_sprint_report(sprint1["id"], BOARD_ID) and the write of its file.
FetchSprintReport ==
  /\ pc = "report"
  /\ \E status \in Responses :
       /\ lastCall' = [NoCall EXCEPT !.op = "sprint_report", !.target = sprint1,
                                     !.board = BOARD_ID]
       /\ lastStatus' = status
       /\ attempts' = Count("sprint_report")
       /\ Goto(IF status = Raised THEN Exited ELSE [pc |-> "velocity", i |-> 0, j |-> 0])
       /\ exit_code' = IF status = Raised THEN 1 ELSE exit_code
       /\ lastPrint' = IF status = Raised THEN << "traceback" >>
                       ELSE IF FetchOk(status) THEN << "Saved sprint1_report.json" >>
                       ELSE << "Failed to fetch sprint report", "Saved sprint1_report.json" >>
  /\ UNCHANGED << web, config, summary, BOARD_ID, created_epics, created_stories, candidate_fields,
                  linked, sprint1, sprint2, sprint1_keys, sprint2_keys, remoteSeq, tried,
                  metaSeen, returned, subtasked, sprinted >>

\* fetch_velocity_chart(BOARD_ID) and the write of its file.
FetchVelocity ==
  /\ pc = "velocity"
  /\ \E status \in Responses :
       /\ lastCall' = [NoCall EXCEPT !.op = "velocity", !.board = BOARD_ID]
       /\ lastStatus' = status
       /\ attempts' = Count("velocity")
       /\ Goto(IF status = Raised THEN Exited ELSE [pc |-> "summary", i |-> 0, j |-> 0])
       /\ exit_code' = IF status = Raised THEN 1 ELSE exit_code
       /\ lastPrint' = IF status = Raised THEN << "traceback" >>
                       ELSE IF FetchOk(status) THEN << "Saved velocity.json" >>
                       ELSE << "Failed to fetch velocity chart", "Saved velocity.json" >>
  /\ UNCHANGED << web, config, summary, BOARD_ID, created_epics, created_stories, candidate_fields,
                  linked, sprint1, sprint2, sprint1_keys, sprint2_keys, remoteSeq, tried,
                  metaSeen, returned, subtasked, sprinted >>

\* The summary showing every created story instead of a sample.
SampleStoriesAll(stories) == stories

\* list(created_stories.items())[:5], as title and key.
SampleStories(stories) ==
  SubSeq(stories, 1, IF Len(stories) < 5 THEN Len(stories) ELSE 5)

\* The closing prints of main: the name and key of every entry of
\* created_epics and of a sample of created_stories.  The process then
\* ends with status 0.
Finish ==
  /\ pc = "summary"
  /\ pc' = "done"
  /\ exit_code' = 0
  /\ summary' = [epics |-> created_epics, stories |-> SampleStories(created_stories)]
  /\ lastPrint' = << "--- Done. Summary ---", "Epics created",
                     "Sample stories created (first 5)" >>
  /\ candidate_fields' = <<>>
  /\ tried' = <<>>
  /\ metaSeen' = NoMeta
  /\ UNCHANGED << web, config, BOARD_ID, created_epics, created_stories, i, j, linked, sprint1,
                  sprint2, sprint1_keys, sprint2_keys, remoteSeq, lastCall, lastStatus,
                  attempts, returned, subtasked, sprinted >>

Next ==
  \/ Startup
  \/ GetBoard
  \/ CreateEpic
  \/ CreateStory
  \/ LinkMeta
  \/ LinkPut
  \/ CreateSubtask
  \/ CreateSprint1
  \/ CreateSprint2
  \/ AddToSprint1
  \/ AddToSprint2
  \/ Attach
  \/ FetchSprintReport
  \/ FetchVelocity
  \/ Finish

Spec == Init /\ [][Next]_vars

(***************************************************************************)
(* Runs against a remote system that accepts every call                    *)
(***************************************************************************)

\* The most recent remote call was answered with success: a board was
\* found, and every other call returned a status its helper accepts.
CallSucceeded ==
  CASE lastCall.op = "none" -> TRUE
    [] lastCall.op = "get_board" -> lastStatus = 200 /\ BOARD_ID # 0
    [] lastCall.op \in {"create_issue", "create_subtask", "create_sprint", "attach"} ->
         lastStatus \in {200, 201}
    [] lastCall.op \in {"update_issue", "add_to_sprint"} -> lastStatus \in {200, 204}
    [] OTHER -> lastStatus = 200

\* The steps of the script when every call it issues is answered so.
DryRunNext ==
  \/ Startup /\ CallSucceeded'
  \/ GetBoard /\ CallSucceeded'
  \/ CreateEpic /\ CallSucceeded'
  \/ CreateStory /\ CallSucceeded'
  \/ LinkMeta /\ CallSucceeded'
  \/ LinkPut /\ CallSucceeded'
  \/ CreateSubtask /\ CallSucceeded'
  \/ CreateSprint1 /\ CallSucceeded'
  \/ CreateSprint2 /\ CallSucceeded'
  \/ AddToSprint1 /\ CallSucceeded'
  \/ AddToSprint2 /\ CallSucceeded'
  \/ Attach /\ CallSucceeded'
  \/ FetchSprintReport /\ CallSucceeded'
  \/ FetchVelocity /\ CallSucceeded'
  \/ Finish /\ CallSucceeded'

SpecDryRun == Init /\ [][DryRunNext]_vars

\* The number of runs of the script against one remote system.
MaxRuns == 2

\* The script is started again after a finished run: a new process, with
\* the same credentials, against the same remote system.  The remote
\* system keeps what it holds and goes on numbering; the process starts
\* with empty mappings.
Rerun ==
  /\ pc = "done"
  /\ Cardinality(returned["Epic"]) < MaxRuns * Len(EPICS)
  /\ BOARD_ID' \in {0, TheBoard}
  /\ pc' = "startup"
  /\ exit_code' = -1
  /\ created_epics' = <<>>
  /\ created_stories' = <<>>
  /\ i' = 0
  /\ j' = 0
  /\ candidate_fields' = <<>>
  /\ linked' = "unset"
  /\ sprint1' = 0
  /\ sprint2' = 0
  /\ sprint1_keys' = <<>>
  /\ sprint2_keys' = <<>>
  /\ lastCall' = NoCall
  /\ lastStatus' = 0
  /\ lastPrint' = <<>>
  /\ tried' = <<>>
  /\ metaSeen' = NoMeta
  /\ attempts' = [op \in Operations |-> 0]
  /\ subtasked' = {}
  /\ sprinted' = {}
  /\ summary' = <<>>
  /\ UNCHANGED << web, config, remoteSeq, returned >>

TwiceNext ==
  \/ DryRunNext
  \/ Rerun

SpecTwice == Init /\ [][TwiceNext]_vars

(***************************************************************************)
(* The web demo, src/frontend/app.py: signup, login, verify                *)
(***************************************************************************)

\* The state of the provisioning script.
script ==
  << config, BOARD_ID, pc, exit_code, created_epics, created_stories, i, j,
     candidate_fields, linked, sprint1, sprint2, sprint1_keys, sprint2_keys,
     remoteSeq, lastCall, lastStatus, lastPrint, tried, metaSeen, attempts,
     returned, subtasked, sprinted, summary >>

\* bool(d) of a dict of USERS: it has the keys signup writes, or an "otp".
Truthy(d) == d.profile \/ d.otp # NoOtp

\* The first step of a handler's POST branch.
FirstLine(handler) ==
  CASE handler = "signup" -> "store_user"
    [] handler = "login" -> "check_user"
    [] handler = "verify" -> "get_user"

\* The signup requests that have not yet created their dict.
PendingSignups == Cardinality({ c \in Clients : request[c].line = "store_user" })

\* A POST of the client to /signup, /login or /verify arrives: the handler
\* reads the form.  signup and login return at once without a phone.
Post(c) ==
  /\ request[c] = Idle
  /\ \E handler \in {"signup", "login", "verify"},
        phone \in Phones \cup {NoPhone}, otp \in Otps \cup {NoOtp} :
       /\ handler # "verify" => otp = NoOtp
       /\ handler = "signup" => Len(objects) + PendingSignups < MaxObjects
       /\ request' =
            [request EXCEPT ![c] =
               IF handler # "verify" /\ phone = NoPhone THEN Idle
               ELSE [handler |-> handler, phone |-> phone, otp |-> otp, user |-> 0,
                     line |-> FirstLine(handler)]]
  /\ UNCHANGED << script, USERS, objects, session >>

\* signup: USERS[phone] = {"phone": ..., "name": ..., "created_at": ...},
\* a new dict without "otp".
SignupStore(c) ==
  /\ request[c].line = "store_user"
  /\ objects' = Append(objects, [profile |-> TRUE, otp |-> NoOtp])
  /\ USERS' = [USERS EXCEPT ![request[c].phone] = Len(objects) + 1]
  /\ request' = [request EXCEPT ![c].line = "otp_lookup"]
  /\ UNCHANGED << script, session >>

\* login: "if phone not in USERS" returns, else send_otp is called.
LoginCheck(c) ==
  /\ request[c].line = "check_user"
  /\ request' = [request EXCEPT ![c] =
                   IF USERS[request[c].phone] = 0 THEN Idle
                   ELSE [@ EXCEPT !.line = "otp_lookup"]]
  /\ UNCHANGED << script, USERS, objects, session >>

\* send_otp: the OTP is generated, and USERS.setdefault(phone, {}) yields
\* the dict of the phone, a new empty one when the phone has none.
SendOtpLookup(c) ==
  /\ request[c].line = "otp_lookup"
  /\ \E otp \in Otps :
       LET phone == request[c].phone
           absent == USERS[phone] = 0
           d == IF absent THEN Len(objects) + 1 ELSE USERS[phone]
       IN
       /\ objects' = IF absent THEN Append(objects, [profile |-> FALSE, otp |-> NoOtp])
                      ELSE objects
       /\ USERS' = [USERS EXCEPT ![phone] = d]
       /\ request' = [request EXCEPT ![c].otp = otp, ![c].user = d,
                                      ![c].line = "otp_store"]
  /\ UNCHANGED << script, session >>

\* send_otp: ...["otp"] = otp on that dict; the handler then returns.
SendOtpStore(c) ==
  /\ request[c].line = "otp_store"
  /\ objects' = [objects EXCEPT ![request[c].user].otp = request[c].otp]
  /\ request' = [request EXCEPT ![c] = Idle]
  /\ UNCHANGED << script, USERS, session >>

\* verify: user = USERS.get(phone).
VerifyLookup(c) ==
  /\ request[c].line = "get_user"
  /\ request' = [request EXCEPT
                   ![c].user = IF request[c].phone \in Phones
                                 THEN USERS[request[c].phone] ELSE 0,
                   ![c].line = "compare"]
  /\ UNCHANGED << script, USERS, objects, session >>

\* verify: "if user and user.get('otp') == otp: session['phone'] = phone";
\* the handler then returns.
VerifyCompare(c) ==
  /\ request[c].line = "compare"
  /\ LET user == request[c].user
         matches == /\ user # 0
                    /\ Truthy(objects[user])
                    /\ objects[user].otp = request[c].otp
     IN session' = IF matches THEN [session EXCEPT ![c] = request[c].phone] ELSE session
  /\ request' = [request EXCEPT ![c] = Idle]
  /\ UNCHANGED << script, USERS, objects >>

\* The handlers run in threads of one server: any of them takes the next
\* step.
WebNext ==
  \E c \in Clients :
    \/ Post(c)
    \/ SignupStore(c)
    \/ LoginCheck(c)
    \/ SendOtpLookup(c)
    \/ SendOtpStore(c)
    \/ VerifyLookup(c)
    \/ VerifyCompare(c)

\* The server started; the provisioning script is not part of the demo.
WebInit ==
  /\ Init
  /\ BOARD_ID = 0
  /\ \A n \in ConfigNames : config[n]

SpecWeb == WebInit /\ [][WebNext]_vars

(***************************************************************************)
(* Vocabulary of the properties                                            *)
(***************************************************************************)

EpicKeys == { created_epics[k].key : k \in 1..Len(created_epics) }
StoryKeys == { created_stories[k].key : k \in 1..Len(created_stories) }

\* The last remote call was the creation of an epic / of a story.
EpicCall == lastCall.op = "create_issue" /\ lastCall.kind = "Epic"
StoryCall == lastCall.op = "create_issue" /\ lastCall.kind = "Story"

\* The phases of a run, numbered in the order INIT, CREATE_EPICS,
\* CREATE_STORIES_AND_LINK, CREATE_SUBTASKS, CREATE_SPRINTS,
\* ASSIGN_SPRINT_MEMBERSHIP, ATTACH_ARTIFACTS, REPORT, DONE.
PhaseRank(p) ==
  CASE p \in {"startup", "init"} -> 0
    [] p = "epics" -> 1
    [] p \in {"stories", "link_meta", "link_put"} -> 2
    [] p = "subtasks" -> 3
    [] p \in {"sprint1", "sprint2"} -> 4
    [] p \in {"add1", "add2"} -> 5
    [] p = "attach" -> 6
    [] p \in {"report", "velocity", "summary"} -> 7
    [] p = "done" -> 8
    [] OTHER -> 9

\* The phase a remote call belongs to.
CallRank(call) ==
  CASE call.op \in {"none", "get_board"} -> 0
    [] call.op = "create_issue" /\ call.kind = "Epic" -> 1
    [] call.op = "create_issue" /\ call.kind = "Story" -> 2
    [] call.op \in {"get_meta", "update_issue"} -> 2
    [] call.op = "create_subtask" -> 3
    [] call.op = "create_sprint" -> 4
    [] call.op = "add_to_sprint" -> 5
    [] call.op = "attach" -> 6
    [] call.op \in {"sprint_report", "velocity"} -> 7
    [] OTHER -> 9

\* The number of subtask templates of the stories k..Len(stories).
RECURSIVE TemplateCount(_, _)
TemplateCount(stories, k) ==
  IF k > Len(stories) THEN 0
  ELSE Len(Templates(stories[k].title)) + TemplateCount(stories, k + 1)

\* The fields the running link attempt has applied, in order.
TriedFields == [k \in 1..Len(tried) |-> tried[k].field]

\* The running link attempt has applied a prefix of its candidate list and
\* is at the candidate after it; only its last update may have succeeded.
AppliesInOrder ==
  /\ Len(tried) <= Len(candidate_fields)
  /\ TriedFields = SubSeq(candidate_fields, 1, Len(tried))
  /\ \A k \in 1..(Len(tried) - 1) : ~tried[k].ok
  /\ pc = "link_put" => j = Len(tried) + 1

\* Its last update succeeded: it has returned True and applies no more.
StopsAtSuccess ==
  (tried # <<>> /\ tried[Len(tried)].ok) =>
    /\ pc # "link_put"
    /\ linked = "True"
    /\ lastCall.op = "update_issue"
    /\ lastCall.field = tried[Len(tried)].field
    /\ lastStatus \in {200, 204}

IsPrefix(s, t) == Len(s) <= Len(t) /\ SubSeq(t, 1, Len(s)) = s

\* Every template of every created story has had its create_subtask call.
SubtaskedAll ==
  \A k \in 1..Len(created_stories) :
    \A t \in 1..Len(Templates(created_stories[k].title)) :
      << created_stories[k].key, Templates(created_stories[k].title)[t] >> \in subtasked

(***************************************************************************)
(* C1                                                                      *)
(***************************************************************************)

\* An epic creation answered with a status other than 200/201.
EpicCallFailed == EpicCall /\ lastStatus \in StatusCodes \ {200, 201}

C2_StoryFailureCaught ==
  (StoryCall /\ lastStatus \notin {200, 201}) =>
    /\ pc # "exited"
    /\ exit_code = -1

(***************************************************************************)
(* C3                                                                      *)
(***************************************************************************)

\* No call of a phase before every item of the phases before it has been
\* attempted.
ItemsAttempted ==
  LET r == CallRank(lastCall) IN
  /\ r >= 2 => attempts["create_epic"] = Len(EPICS)
  /\ r >= 3 => attempts["create_story"] = Len(StoryInput)
  /\ r >= 4 => attempts["create_subtask"] = TemplateCount(created_stories, 1)
  /\ r >= 4 => SubtaskedAll
  /\ r = 5 => attempts["create_sprint"] = 2
  /\ r >= 6 => attempts["create_sprint"] \in {0, 2}
  /\ r >= 6 =>
       attempts["add_to_sprint"] =
         (IF sprint1 # 0 THEN 1 ELSE 0) + (IF sprint2 # 0 THEN 1 ELSE 0)

\* C3: the phases of a run occur in the fixed order INIT, CREATE_EPICS,
\* CREATE_STORIES_AND_LINK, CREATE_SUBTASKS, CREATE_SPRINTS,
\* ASSIGN_SPRINT_MEMBERSHIP, ATTACH_ARTIFACTS, REPORT, DONE: the script
\* never moves to an earlier phase, every remote call is issued in its own
\* phase, and no call of a later phase is issued before every item of the
\* earlier phases has been attempted.
C3_PhaseOrder ==
  [][ /\ pc' # "exited" => PhaseRank(pc') >= PhaseRank(pc)
      /\ lastCall' # lastCall => CallRank(lastCall') = PhaseRank(pc)
      /\ CallRank(lastCall') >= CallRank(lastCall)
      /\ ItemsAttempted' ]_vars

\* C3, witness: a run that went through every phase and is done.
C3_Witness ==
  /\ pc = "done"
  /\ attempts["create_epic"] = Len(EPICS)
  /\ attempts["create_story"] = Len(StoryInput)
  /\ attempts["create_subtask"] > 0
  /\ attempts["create_sprint"] = 2
  /\ attempts["add_to_sprint"] = 2
  /\ attempts["attach"] = Len(SCREENSHOT_PATHS)
  /\ attempts["velocity"] = 1

(***************************************************************************)
(* C4                                                                      *)
(***************************************************************************)

\* C4 as stated: once a link attempt of the run has succeeded, the field
\* identifier is cached, and no later link attempt issues the metadata
\* query.
C4_ResolvedFieldCached == ~(linked = "True" /\ lastCall.op = "get_meta")

\* C4 as amended: nothing is cached between stories.  Every link attempt
\* of a run, also one after an earlier story was linked, first issues the
\* metadata query (one query per created story) and then applies the
\* candidate identifiers from the head of its own list, in order.
C4_EveryLinkQueries ==
  /\ attempts["link"] = Len(created_stories)
  /\ attempts["get_meta"] + (IF pc = "link_meta" THEN 1 ELSE 0) = attempts["link"]
  /\ pc \in {"link_meta", "link_put"} => i = attempts["create_story"]
  /\ pc = "link_put" =>
       /\ lastCall.op \in {"get_meta", "update_issue"}
       /\ candidate_fields # <<>>
       /\ IsPrefix(TriedFields, candidate_fields)
       /\ j = Len(tried) + 1

\* C4, witness: after an earlier story was linked, the link attempt of the
\* second story has issued its own query and has applied, without success,
\* the first candidate of its list.
C4_Witness ==
  /\ linked = "True"
  /\ attempts["get_meta"] = 2
  /\ pc = "link_put"
  /\ lastCall.op = "update_issue"
  /\ Len(tried) = 1
  /\ ~tried[1].ok

(***************************************************************************)
(* C5                                                                      *)
(***************************************************************************)

\* C5 as stated: when the metadata response lists a field labelled
\* "Epic Link" (in any case), that field's identifier is the one applied
\* and no static candidate is applied to the story.
C5_NoStaticAfterMatch ==
  metaSeen.epicLink # "" =>
    /\ Len(tried) <= 1
    /\ tried # <<>> => tried[1].field = metaSeen.epicLink

\* C5 as amended: when the metadata query returns 200 and its response
\* lists a field labelled "Epic Link" or "Epic" (in any case), the
\* identifier of the first such field is applied first; if that update
\* does not return 200/204, the static candidates are applied after it in
\* list order, up to the first success.
C5_MatchAppliedFirst ==
  metaSeen.epicLike # "" =>
    /\ candidate_fields = << metaSeen.epicLike >> \o StaticCandidates
    /\ AppliesInOrder
    /\ StopsAtSuccess

\* C5, witness: the discovered identifier was applied and failed, then the
\* first static candidate was applied and linked the story.
C5_Witness ==
  /\ metaSeen.epicLink = "customfield_10100"
  /\ Len(tried) = 2
  /\ tried[1] = [field |-> "customfield_10100", ok |-> FALSE]
  /\ tried[2] = [field |-> "customfield_10014", ok |-> TRUE]
  /\ linked = "True"

(***************************************************************************)
(* C6                                                                      *)
(***************************************************************************)

\* The metadata query was answered, and the answer had a status other than
\* 200, did not parse, or listed no field with an accepted label.
NoMatchingLabel == candidate_fields # <<>> /\ metaSeen.epicLike = ""

\* C6: when the metadata query fails (a status other than 200), is
\* unavailable (a response that does not parse) or has no matching label,
\* the static candidates are applied in list order, the first one whose
\* update returns 200/204 is the one the story is linked with, and no
\* candidate after it is applied.  (A query whose request raises has no
\* response: the story's handler ends the link attempt.)
C6_StaticFallbackInOrder ==
  NoMatchingLabel =>
    /\ candidate_fields = StaticCandidates
    /\ AppliesInOrder
    /\ StopsAtSuccess

\* C6, witness: of the static candidates exactly the first and the second
\* were applied, and the second linked the story.
C6_Witness ==
  /\ NoMatchingLabel
  /\ lastCall.op = "update_issue"
  /\ Len(tried) = 2
  /\ tried[1] = [field |-> StaticCandidates[1], ok |-> FALSE]
  /\ tried[2] = [field |-> StaticCandidates[2], ok |-> TRUE]
  /\ linked = "True"
  /\ pc # "link_put"

(***************************************************************************)
(* C7                                                                      *)
(***************************************************************************)

\* Every candidate of a link attempt has been applied and none of the
\* updates returned 200/204.
AllCandidatesFailed ==
  /\ lastCall.op = "update_issue"
  /\ lastStatus \in StatusCodes \ {200, 204}
  /\ tried # <<>>
  /\ Len(tried) = Len(candidate_fields)

\* What holds of a run in which link attempts may have failed.
NonFatalLinkFailure ==
  /\ AllCandidatesFailed =>
       /\ pc \in {"stories", "subtasks"}
       /\ exit_code = -1
       /\ linked = "False"
       /\ lastPrint[1] = "Failed to auto-link story to epic"
       /\ lastCall.target = created_stories[Len(created_stories)].key
       /\ pc = "stories" =>
            i = attempts["create_story"] + 1 /\ i <= Len(StoryInput)
       /\ pc = "subtasks" =>
            attempts["create_story"] = Len(StoryInput) /\ i = 1 /\ j = 1
  /\ PhaseRank(pc) \in 4..8 => SubtaskedAll
  /\ (PhaseRank(pc) \in 6..8 /\ sprint1 # 0 /\ sprint2 # 0) => StoryKeys \subseteq sprinted

\* C7: when every candidate fails for a story, the run is not ended.  The
\* story stays in the mapping of created stories (no step removes an
\* entry), the story loop goes on with the next definition or, after the
\* last one, the subtask phase starts at the first created story; every
\* created story, linked or not, has had its subtask calls when the
\* subtask phase is over and is in a bulk-add call when both sprints were
\* created.
C7_LinkFailureNonFatal ==
  [][ IsPrefix(created_stories, created_stories') /\ NonFatalLinkFailure' ]_vars

\* C7, witness: the run is done; the link attempt of its last story
\* returned False, and that story had its subtask calls and was passed in
\* a bulk-add call.
C7_Witness ==
  /\ pc = "done"
  /\ linked = "False"
  /\ Len(created_stories) = Len(StoryInput)
  /\ SubtaskedAll
  /\ created_stories[Len(created_stories)].key \in sprinted
  /\ attempts["add_to_sprint"] = 2

(***************************************************************************)
(* C8                                                                      *)
(***************************************************************************)

\* The keys of the created stories, in creation order.
CreatedKeys == [k \in 1..Len(created_stories) |-> created_stories[k].key]

\* C8 as stated: sprint 1 receives the first 6 created story keys in
\* creation order (all of them when fewer were created), sprint 2 the
\* remaining ones, whichever story definitions failed.
C8_PartitionByCreatedPosition ==
  LET n == Len(created_stories)
      cut == IF n < SprintOneSize THEN n ELSE SprintOneSize
  IN
  lastCall.op = "add_to_sprint" =>
    /\ lastCall.target = sprint1 => lastCall.keys = SubSeq(CreatedKeys, 1, cut)
    /\ lastCall.target = sprint2 => lastCall.keys = SubSeq(CreatedKeys, cut + 1, n)

\* The titles of the first 6 story definitions.
SprintOneTitles ==
  { StoryInput[k].title :
      k \in 1..(IF Len(StoryInput) < SprintOneSize THEN Len(StoryInput) ELSE SprintOneSize) }

\* The keys of the created stories whose title is (is not) one of those.
KeysOfTitles(in) ==
  LET picked == SelectSeq(created_stories, LAMBDA s : (s.title \in SprintOneTitles) = in)
  IN [k \in 1..Len(picked) |-> picked[k].key]

\* C8 as amended: the partition is by position in the list of story
\* definitions, not in the list of created stories.  Sprint 1 receives
\* the keys of the created stories that are among the first 6
\* definitions, sprint 2 the keys of the other created stories, each in
\* creation order; a definition that was not created takes up its
\* position, so that sprint 1 receives fewer than 6 keys when one of the
\* first 6 definitions failed.  One bulk-add call is issued per created
\* sprint.
C8_PartitionByDefinitionPosition ==
  /\ (PhaseRank(pc) \in 5..8 /\ attempts["create_sprint"] = 2) =>
       /\ sprint1_keys = KeysOfTitles(TRUE)
       /\ sprint2_keys = KeysOfTitles(FALSE)
  /\ lastCall.op = "add_to_sprint" =>
       /\ lastCall.target # 0
       /\ lastCall.target \in {sprint1, sprint2}
       /\ lastCall.target = sprint1 => lastCall.keys = KeysOfTitles(TRUE)
       /\ lastCall.target = sprint2 => lastCall.keys = KeysOfTitles(FALSE)
  /\ PhaseRank(pc) \in 6..8 =>
       attempts["add_to_sprint"] =
         (IF sprint1 # 0 THEN 1 ELSE 0) + (IF sprint2 # 0 THEN 1 ELSE 0)

\* C8, witness: 6 stories were created, the first definition was not, and
\* the bulk-add call of sprint 1 passes 5 keys.
C8_Witness ==
  /\ lastCall.op = "add_to_sprint"
  /\ lastCall.target = sprint1
  /\ Len(created_stories) = SprintOneSize
  /\ created_stories[1].title = StoryInput[2].title
  /\ Len(lastCall.keys) = SprintOneSize - 1
  /\ Len(sprint2_keys) = 1

(***************************************************************************)
(* C9                                                                      *)
(***************************************************************************)

\* The operations that need a board.
BoardOperations == {"create_sprint", "add_to_sprint", "sprint_report", "velocity"}

\* What holds of a run without a board.
DegradedRun ==
  /\ (lastCall.op = "get_board" /\ lastStatus \in StatusCodes /\ BOARD_ID = 0) =>
       /\ pc = "epics"
       /\ exit_code = -1
       /\ lastPrint[Len(lastPrint)] = "No board found"
  /\ BOARD_ID = 0 =>
       /\ \A op \in BoardOperations : attempts[op] = 0
       /\ lastCall.op \notin BoardOperations
       /\ pc \notin {"sprint1", "sprint2", "add1", "add2", "report", "velocity"}
       /\ sprint1 = 0 /\ sprint2 = 0
  /\ (BOARD_ID = 0 /\ pc = "exited" /\ lastCall.op # "none") =>
       \/ lastStatus = Raised
       \/ lastCall.op = "create_issue" /\ lastStatus \notin {200, 201}
  /\ (BOARD_ID = 0 /\ PhaseRank(pc) \in 7..8) =>
       /\ attempts["create_epic"] = Len(EPICS)
       /\ attempts["create_story"] = Len(StoryInput)
       /\ attempts["create_subtask"] = TemplateCount(created_stories, 1)
       /\ SubtaskedAll
  /\ (BOARD_ID = 0 /\ pc = "done") => exit_code = 0

\* C9: when no board id is configured and the lookup returns a status
\* other than 200 or no board, the run goes on without a board: it issues
\* no sprint-create, bulk-add or report-fetch call, it ends early only
\* where a run with a board does (a failed issue creation, a request that
\* raises), and it processes epics, stories, subtasks and attachments and
\* finishes with exit status 0.  When a board id is configured, no lookup
\* call is issued and the board id stays as configured.
C9_BoardlessRunDegraded ==
  [][ /\ BOARD_ID # 0 =>
           /\ BOARD_ID' = BOARD_ID
           /\ lastCall' # lastCall => lastCall'.op # "get_board"
      /\ (BOARD_ID = 0 /\ pc = "summary") => pc' = "done"
      /\ DegradedRun' ]_vars

\* C9, witness: a run whose lookup found no board is done, after its
\* subtask calls and both attachment uploads.
C9_Witness ==
  /\ pc = "done"
  /\ BOARD_ID = 0
  /\ exit_code = 0
  /\ lastCall.op = "attach"
  /\ attempts["attach"] = Len(SCREENSHOT_PATHS)
  /\ attempts["create_subtask"] = TemplateCount(created_stories, 1)
  /\ Len(created_stories) = Len(StoryInput)

(***************************************************************************)
(* C10                                                                     *)
(***************************************************************************)

\* C10: every key or id a remote call passes as a reference was returned
\* by an earlier successful create of the run: the update of a link
\* attempt addresses a created story and sets the key of a created epic, a
\* subtask create names a created story as parent, a bulk-add names a
\* created sprint and only keys of created stories, an upload addresses a
\* created epic and the sprint report names a created sprint.
C10_ReferencesWereReturned ==
  /\ lastCall.op = "update_issue" =>
       /\ lastCall.target \in returned["Story"]
       /\ lastCall.value \in returned["Epic"]
  /\ lastCall.op = "create_subtask" => lastCall.parent \in returned["Story"]
  /\ lastCall.op = "add_to_sprint" =>
       /\ lastCall.target \in returned["Sprint"]
       /\ \A k \in 1..Len(lastCall.keys) : lastCall.keys[k] \in returned["Story"]
  /\ lastCall.op = "attach" => lastCall.target \in returned["Epic"]
  /\ lastCall.op = "sprint_report" => lastCall.target \in returned["Sprint"]
  /\ \A n \in UNION {returned[kind] : kind \in DOMAIN returned} : n \in 1..remoteSeq
  /\ StoryKeys \subseteq returned["Story"]
  /\ EpicKeys \subseteq returned["Epic"]

\* C10, witness: a bulk-add call of a run in which a story creation
\* failed; it passes the keys of the created stories of its sprint.
C10_Witness ==
  /\ lastCall.op = "add_to_sprint"
  /\ lastCall.target \in returned["Sprint"]
  /\ Len(lastCall.keys) >= 2
  /\ Len(created_stories) < attempts["create_story"]

(***************************************************************************)
(* C11                                                                     *)
(***************************************************************************)

\* C11 as stated: with every call succeeding, a finished run has produced
\* exactly 5 unique epic keys, 6 unique story keys, 10 subtask keys and 2
\* sprint ids, with no fatal error.
C11_DryRunCounts ==
  pc = "done" =>
    /\ Cardinality(EpicKeys) = 5
    /\ Cardinality(StoryKeys) = 6
    /\ attempts["create_subtask"] = 10
    /\ Cardinality(returned["Sprint"]) = 2
    /\ exit_code = 0

\* C11 as amended: the fixed input is 5 epics and 15 stories, and every
\* story has 3 subtask templates (45 in all).  With every call succeeding,
\* a run with complete configuration never ends early, and when it is
\* done it has produced one unique key per epic definition, one unique key
\* per story definition, three subtasks per story and 2 distinct sprint
\* ids, every identifier fresh, and its exit status is 0.
C11_DryRunCreatesWholeInput ==
  LET n == Len(StoryInput) IN
  /\ Len(EPICS) = 5
  /\ Len(STORIES) = 15
  /\ TemplateCount(STORIES, 1) = 45
  /\ pc = "exited" => (lastCall = NoCall /\ \E c \in ConfigNames : ~config[c])
  /\ pc = "done" =>
       /\ Len(created_epics) = Len(EPICS)
       /\ Cardinality(EpicKeys) = Len(EPICS)
       /\ Len(created_stories) = n
       /\ Cardinality(StoryKeys) = n
       /\ attempts["create_subtask"] = 3 * n
       /\ Cardinality(subtasked) = 3 * n
       /\ Cardinality(returned["Sprint"]) = 2
       /\ returned["Sprint"] = {sprint1, sprint2}
       /\ remoteSeq = Len(EPICS) + n + 3 * n + 2
       /\ EpicKeys \cap StoryKeys = {}
       /\ exit_code = 0

\* C11, witness: a finished run in which every call succeeded, with its
\* uploads and report fetches.
C11_Witness ==
  /\ pc = "done"
  /\ exit_code = 0
  /\ Len(created_stories) = Len(StoryInput)
  /\ attempts["create_subtask"] = 3 * Len(StoryInput)
  /\ attempts["attach"] = Len(SCREENSHOT_PATHS)
  /\ attempts["velocity"] = 1

(***************************************************************************)
(* C12                                                                     *)
(***************************************************************************)

\* C12: an operation counts as successful only for its own status codes.
\* An issue creation answered with a status other than 200/201 records no
\* key in the mappings; a subtask or sprint creation answered so is not
\* reported as created and leaves no sprint id; a field update answered
\* with a status other than 200/204 is not reported as a link, and when it
\* was the last candidate the link attempt returns False; a bulk-add
\* answered with a status other than 200/204 is not reported as done.  With
\* one of its own codes the operation is recorded and reported.
C12_SuccessOnlyForWhitelist ==
  LET created == lastStatus \in {200, 201}
      updated == lastStatus \in {200, 204}
  IN
  /\ (EpicCall /\ ~created) =>
       /\ remoteSeq \notin EpicKeys \cup returned["Epic"]
       /\ lastPrint # << "Created Epic" >>
  /\ (EpicCall /\ created) =>
       /\ created_epics[Len(created_epics)] = [name |-> lastCall.name, key |-> remoteSeq]
       /\ lastPrint = << "Created Epic" >>
  /\ (StoryCall /\ ~created) => remoteSeq \notin StoryKeys \cup returned["Story"]
  /\ (StoryCall /\ created) =>
       created_stories[Len(created_stories)] = [title |-> lastCall.name, key |-> remoteSeq]
  /\ (lastCall.op = "create_subtask" /\ ~created) => lastPrint # << "Created subtask" >>
  /\ (lastCall.op = "create_subtask" /\ created /\ pc \in {"subtasks", "sprint1"}) =>
       lastPrint = << "Created subtask" >>
  /\ (lastCall.op = "create_sprint" /\ ~created) =>
       /\ remoteSeq \notin returned["Sprint"]
       /\ lastPrint # << "Created sprint" >>
       /\ lastCall.name = "Sprint 1 - Core Functionality" => sprint1 = 0
       /\ lastCall.name = "Sprint 2 - Enhancements & Support" => sprint2 = 0
  /\ (lastCall.op = "create_sprint" /\ created) =>
       /\ remoteSeq \in returned["Sprint"]
       /\ lastCall.name = "Sprint 1 - Core Functionality" => sprint1 = remoteSeq
       /\ lastCall.name = "Sprint 2 - Enhancements & Support" => sprint2 = remoteSeq
  /\ (lastCall.op = "update_issue" /\ ~updated) =>
       /\ lastPrint # << "Linked story" >>
       /\ (lastStatus # Raised /\ pc # "link_put") => linked = "False"
  /\ (lastCall.op = "update_issue" /\ updated) =>
       /\ linked = "True"
       /\ lastPrint = << "Linked story" >>
  /\ (lastCall.op = "add_to_sprint" /\ ~updated) =>
       lastPrint # << "Added issues to sprint" >>
  /\ (lastCall.op = "add_to_sprint" /\ updated /\ pc = "add2") =>
       lastPrint = << "Added issues to sprint" >>

\* C12, witness: the update of the last candidate was answered 201, a
\* success code of creations only, and the link attempt returned False.
C12_Witness ==
  /\ lastCall.op = "update_issue"
  /\ lastStatus = 201
  /\ Len(tried) = Len(candidate_fields)
  /\ linked = "False"
  /\ lastPrint[1] = "Failed to auto-link story to epic"

(***************************************************************************)
(* C13                                                                     *)
(***************************************************************************)

\* C13 as stated: the summary of a finished run holds the key of every
\* created epic, story and subtask, and a description of every failure.
C13_SummaryListsEverything ==
  pc = "done" =>
    /\ { summary.epics[k].key : k \in 1..Len(summary.epics) } = EpicKeys
    /\ { summary.stories[k].key : k \in 1..Len(summary.stories) } = StoryKeys
    /\ "subtasks" \in DOMAIN summary
    /\ "failures" \in DOMAIN summary

\* C13 as amended: the summary is emitted when the run is done and not
\* before.  It holds the name and key of every created epic and the title
\* and key of the first 5 created stories only (of all of them when fewer
\* were created); it holds no count, no subtask key and no description of
\* a failure.
C13_SummaryListsEpicsAndSample ==
  LET n == Len(created_stories) IN
  /\ (summary # <<>>) <=> (pc = "done")
  /\ pc = "done" =>
       /\ DOMAIN summary = {"epics", "stories"}
       /\ summary.epics = created_epics
       /\ Len(summary.epics) = Len(EPICS)
       /\ Len(summary.stories) = IF n < 5 THEN n ELSE 5
       /\ \A k \in 1..Len(summary.stories) : summary.stories[k] = created_stories[k]

\* C13, witness: a finished run that created every story, issued subtask
\* calls and had a link attempt fail; its summary shows 5 stories.
C13_Witness ==
  /\ pc = "done"
  /\ Len(created_stories) = Len(StoryInput)
  /\ Len(created_stories) > 5
  /\ Len(summary.stories) = 5
  /\ attempts["create_subtask"] > 0
  /\ linked = "False"

(***************************************************************************)
(* C14                                                                     *)
(***************************************************************************)

\* A required credential is missing from the configuration.
CredentialMissing ==
  \E c \in {"JIRA_URL", "JIRA_EMAIL", "JIRA_API_TOKEN"} : ~config[c]

\* C14: when a required credential is missing, the run ends at startup
\* with exit status 1 and one message; it issues no remote call and enters
\* no phase.
C14_MissingCredentialFatal ==
  CredentialMissing =>
    /\ pc \in {"startup", "exited"}
    /\ lastCall = NoCall
    /\ lastStatus = 0
    /\ remoteSeq = 0
    /\ \A op \in Operations : attempts[op] = 0
    /\ created_epics = <<>> /\ created_stories = <<>>
    /\ summary = <<>>
    /\ pc = "startup" => exit_code = -1 /\ lastPrint = <<>>
    /\ pc = "exited" =>
         /\ exit_code = 1
         /\ lastPrint = << "Please set JIRA_URL, JIRA_EMAIL, and JIRA_API_TOKEN" >>

\* C14, witness: the run has ended at startup for a missing API token.
C14_Witness ==
  /\ ~config["JIRA_API_TOKEN"]
  /\ config["JIRA_URL"] /\ config["JIRA_EMAIL"] /\ config["PROJECT_KEY"]
  /\ pc = "exited"
  /\ exit_code = 1

(***************************************************************************)
(* C15                                                                     *)
(***************************************************************************)

\* What holds of the uploads issued so far.
UploadsToFirstEpic ==
  /\ attempts["attach"] <= Len(SCREENSHOT_PATHS)
  /\ created_epics = <<>> => (attempts["attach"] = 0 /\ pc # "attach")
  /\ lastCall.op = "attach" =>
       /\ lastCall.target = created_epics[1].key
       /\ created_epics[1].name = EPICS[1]
       /\ lastCall.target \in returned["Epic"]
       /\ \E k \in 1..Len(SCREENSHOT_PATHS) : lastCall.name = SCREENSHOT_PATHS[k]
       /\ pc # "exited"
       /\ exit_code \in {-1, 0}

\* C15: every upload addresses the key of the first created epic, which is
\* the first epic of the input.  An iteration of the attachment loop never
\* ends the run, whatever the upload returns or raises, and is followed by
\* the next file or, after the last one, by the next phase; for a file
\* that does not exist it issues no call and prints a line only; the file
\* it uploads is the one of the iteration.  Without a created epic no
\* upload is attempted.
C15_BestEffortAttach ==
  [][ /\ UploadsToFirstEpic'
      /\ pc = "attach" =>
           /\ pc' # "exited"
           /\ exit_code' = exit_code
           /\ i < Len(SCREENSHOT_PATHS) => (pc' = "attach" /\ i' = i + 1)
           /\ i = Len(SCREENSHOT_PATHS) => pc' \in {"report", "summary"}
           /\ lastPrint' \in { << "Screenshot not found at path" >>,
                                << "Attachment file not found" >> } =>
                (lastCall' = lastCall /\ attempts' = attempts /\ remoteSeq' = remoteSeq)
           /\ attempts' # attempts =>
                /\ attempts'["attach"] = attempts["attach"] + 1
                /\ lastCall'.op = "attach"
                /\ lastCall'.name = SCREENSHOT_PATHS[i] ]_vars

\* C15, witness: the first file did not exist, the upload of the second
\* one was answered 400, and the run is done.
C15_Witness ==
  /\ pc = "done"
  /\ exit_code = 0
  /\ attempts["attach"] = 1
  /\ lastCall.op = "attach"
  /\ lastCall.name = SCREENSHOT_PATHS[2]
  /\ lastStatus = 400

(***************************************************************************)
(* C16                                                                     *)
(***************************************************************************)

\* What holds of the sprint-create calls issued so far.
TwoSprintCalls ==
  /\ attempts["create_sprint"] <= 2
  /\ BOARD_ID = 0 => attempts["create_sprint"] = 0
  /\ pc = "sprint2" => attempts["create_sprint"] = 1
  /\ (PhaseRank(pc) \in 5..8 /\ BOARD_ID # 0) => attempts["create_sprint"] = 2
  /\ lastCall.op = "create_sprint" =>
       /\ lastCall.board = BOARD_ID /\ BOARD_ID # 0
       /\ lastCall.end = lastCall.start + 14
       /\ attempts["create_sprint"] = 1 =>
            /\ lastCall.name = "Sprint 1 - Core Functionality"
            /\ lastCall.field = "Onboarding + UPI basics"
            /\ lastCall.start = 0
       /\ attempts["create_sprint"] = 2 =>
            /\ lastCall.name = "Sprint 2 - Enhancements & Support"
            /\ lastCall.field = "Recharge, Analytics, Support"

\* C16: with a board id, the sprint phase issues exactly two sprint-create
\* calls, for sprint 1 and then for sprint 2, the second one also when the
\* first returned no sprint; each call names the board, carries its goal
\* and ends 14 days after its start, and sprint 2 starts one day after
\* the end of sprint 1, so after it.
C16_TwoSequentialSprints ==
  [][ /\ TwoSprintCalls'
      /\ pc = "sprint1" => (pc' \in {"sprint2", "exited"} /\ lastCall'.op = "create_sprint")
      /\ (pc = "sprint2" /\ lastStatus # Raised) => lastCall.op = "create_sprint"
      /\ pc = "sprint2" =>
           /\ lastCall'.op = "create_sprint"
           /\ lastCall'.start = lastCall.end + 1
           /\ lastCall'.start > lastCall.end ]_vars

\* C16, witness: the call for sprint 1 returned no sprint, and the call
\* for sprint 2 followed and created one.
C16_Witness ==
  /\ lastCall.op = "create_sprint"
  /\ lastCall.name = "Sprint 2 - Enhancements & Support"
  /\ lastCall.start = 15 /\ lastCall.end = 29
  /\ attempts["create_sprint"] = 2
  /\ sprint1 = 0
  /\ sprint2 # 0

(***************************************************************************)
(* C17                                                                     *)
(***************************************************************************)

\* The definitions of the input are pairwise distinct, and no operation
\* has been called more often than it has items.
AtMostOncePerItem ==
  /\ Cardinality({ EPICS[k] : k \in 1..Len(EPICS) }) = Len(EPICS)
  /\ Cardinality({ StoryInput[k].title : k \in 1..Len(StoryInput) }) = Len(StoryInput)
  /\ attempts["create_epic"] <= Len(EPICS)
  /\ attempts["create_story"] <= Len(StoryInput)
  /\ attempts["create_subtask"] = Cardinality(subtasked)
  /\ attempts["create_subtask"] <= TemplateCount(created_stories, 1)
  /\ attempts["create_sprint"] <= 2
  /\ attempts["add_to_sprint"] <= 2

\* C17: no call is repeated, whatever it returned.  The k-th epic create
\* of a run is for the k-th epic definition and the k-th story create for
\* the k-th story definition; a subtask create is for a (story, title)
\* pair no earlier call was for; the first sprint create is for sprint 1
\* and the second for sprint 2; a second bulk-add addresses another sprint
\* than the first.
C17_NoRetry ==
  [][ /\ AtMostOncePerItem'
      /\ attempts'["create_epic"] # attempts["create_epic"] =>
           /\ attempts'["create_epic"] = attempts["create_epic"] + 1
           /\ lastCall'.kind = "Epic"
           /\ lastCall'.name = EPICS[attempts'["create_epic"]]
      /\ attempts'["create_story"] # attempts["create_story"] =>
           /\ attempts'["create_story"] = attempts["create_story"] + 1
           /\ lastCall'.kind = "Story"
           /\ lastCall'.name = StoryInput[attempts'["create_story"]].title
      /\ attempts'["create_subtask"] # attempts["create_subtask"] =>
           /\ attempts'["create_subtask"] = attempts["create_subtask"] + 1
           /\ << lastCall'.parent, lastCall'.name >> \notin subtasked
      /\ attempts'["create_sprint"] # attempts["create_sprint"] =>
           /\ attempts'["create_sprint"] = attempts["create_sprint"] + 1
           /\ lastCall'.name =
                IF attempts["create_sprint"] = 0 THEN "Sprint 1 - Core Functionality"
                ELSE "Sprint 2 - Enhancements & Support"
      /\ attempts'["add_to_sprint"] # attempts["add_to_sprint"] =>
           /\ attempts'["add_to_sprint"] = attempts["add_to_sprint"] + 1
           /\ lastCall.op = "add_to_sprint" => lastCall'.target # lastCall.target
           /\ attempts["add_to_sprint"] = 1 => lastCall.op = "add_to_sprint" ]_vars

\* C17, witness: a finished run in which the create of sprint 1 and a
\* link attempt failed; every operation was called once per item.
C17_Witness ==
  /\ pc = "done"
  /\ sprint1 = 0
  /\ linked = "False"
  /\ attempts["create_epic"] = Len(EPICS)
  /\ attempts["create_story"] = Len(StoryInput)
  /\ attempts["create_subtask"] = TemplateCount(created_stories, 1)
  /\ attempts["create_sprint"] = 2
  /\ attempts["add_to_sprint"] = 1

(***************************************************************************)
(* C18                                                                     *)
(***************************************************************************)

\* The identifiers one run with every call succeeding takes from the
\* remote system: epics, stories, three subtasks per story, two sprints.
PerRun == Len(EPICS) + Len(StoryInput) + 3 * Len(StoryInput) + 2

\* C18: with all calls succeeding, a run started after a finished run
\* issues a create call for every epic and story definition again,
\* whatever the remote system holds already: every key it gets is new, and
\* after r finished runs the remote system holds r full sets of epics and
\* of stories, all under distinct keys.
C18_RerunDuplicates ==
  LET earlier == returned["Epic"] \ EpicKeys IN
  /\ Cardinality(EpicKeys) = Len(created_epics)
  /\ attempts["create_epic"] = Len(created_epics)
  /\ attempts["create_story"] = Len(created_stories)
  /\ Cardinality(earlier) % Len(EPICS) = 0
  /\ \A k \in EpicKeys : \A e \in earlier : k > e
  /\ \A k \in StoryKeys : \A e \in returned["Story"] \ StoryKeys : k > e
  /\ PhaseRank(pc) \in 2..8 => attempts["create_epic"] = Len(EPICS)
  /\ PhaseRank(pc) \in 3..8 => attempts["create_story"] = Len(StoryInput)
  /\ pc = "done" =>
       \E r \in 1..MaxRuns :
         /\ remoteSeq = r * PerRun
         /\ Cardinality(returned["Epic"]) = r * Len(EPICS)
         /\ Cardinality(returned["Story"]) = r * Len(StoryInput)

\* C18, witness: the second run is done; the remote system holds two sets
\* of epics and of stories, and the keys of the second run are new.
C18_Witness ==
  /\ pc = "done"
  /\ Cardinality(returned["Epic"]) = 2 * Len(EPICS)
  /\ Cardinality(returned["Story"]) = 2 * Len(StoryInput)
  /\ Len(created_epics) = Len(EPICS)
  /\ Len(created_stories) = Len(StoryInput)
  /\ \A k \in EpicKeys \cup StoryKeys : k > PerRun

(***************************************************************************)
(* C19                                                                     *)
(***************************************************************************)

\* What holds of the report fetches issued so far.
ReportFetches ==
  /\ attempts["sprint_report"] <= 1
  /\ attempts["velocity"] <= attempts["sprint_report"]
  /\ (BOARD_ID = 0 \/ sprint1 = 0) =>
       (attempts["sprint_report"] = 0 /\ pc \notin {"report", "velocity"})
  /\ (pc \in {"summary", "done"} /\ BOARD_ID # 0 /\ sprint1 # 0) =>
       (attempts["sprint_report"] = 1 /\ attempts["velocity"] = 1)
  /\ lastCall.op = "sprint_report" =>
       /\ lastCall.target = sprint1
       /\ lastCall.target \in returned["Sprint"]
       /\ lastCall.target # sprint2
       /\ lastCall.board = BOARD_ID
  /\ lastCall.op = "velocity" => lastCall.board = BOARD_ID
  /\ (lastCall.op \in {"sprint_report", "velocity"} /\ lastStatus \in StatusCodes \ {200}) =>
       /\ pc # "exited"
       /\ exit_code \in {-1, 0}
       /\ pc # "done" =>
            lastPrint[1] = IF lastCall.op = "sprint_report"
                             THEN "Failed to fetch sprint report"
                             ELSE "Failed to fetch velocity chart"

\* C19: the report phase fetches the report of sprint 1 and the velocity
\* chart of the board, once each, and only when a board id is available
\* and sprint 1 was created.  A fetch answered with a status other than
\* 200 is printed as failed and is followed by the next step of the phase:
\* the velocity fetch, then the summary, then the end of the run with exit
\* status 0.
C19_ReportBestEffort ==
  [][ /\ ReportFetches'
      /\ (pc = "report" /\ lastStatus' # Raised) =>
           (pc' = "velocity" /\ lastCall'.op = "sprint_report")
      /\ (pc = "velocity" /\ lastStatus' # Raised) =>
           (pc' = "summary" /\ lastCall'.op = "velocity")
      /\ pc = "summary" => (pc' = "done" /\ exit_code' = 0) ]_vars

\* C19, witness: a finished run whose velocity fetch was answered 400,
\* after its sprint report fetch.
C19_Witness ==
  /\ pc = "done"
  /\ exit_code = 0
  /\ lastCall.op = "velocity"
  /\ lastStatus = 400
  /\ attempts["sprint_report"] = 1
  /\ sprint1 # 0

(***************************************************************************)
(* C20                                                                     *)
(***************************************************************************)

\* The subtask titles of a story: its own list for the four titles that
\* have one, the three generic titles for any other.
ExpectedTitles(story_title) ==
  CASE story_title = "Signup with mobile number" ->
         << "Design signup UI", "Implement OTP verification", "Store user data in DB" >>
    [] story_title = "Login using OTP/Biometric" ->
         << "Create login UI", "Integrate biometric API", "Validate OTP flow" >>
    [] story_title = "Link bank account for UPI" ->
         << "Integrate with UPI provider API", "Implement bank account verification",
            "Store linked bank info securely" >>
    [] story_title = "Send money using UPI" ->
         << "Create Send Money screen", "Integrate UPI transaction API",
            "Add success/failure messages" >>
    [] OTHER ->
         << "Design <title> UI", "Implement backend for <title>", "Add tests for <title>" >>

\* The (parent key, title) pairs of the created stories.
ExpectedSubtasks ==
  { << created_stories[k].key, ExpectedTitles(created_stories[k].title)[t] >> :
      k \in 1..Len(created_stories), t \in 1..3 }

\* What holds of the subtask creates issued so far.
SubtaskCalls ==
  /\ subtasked \subseteq ExpectedSubtasks
  /\ attempts["create_subtask"] = Cardinality(subtasked)
  /\ PhaseRank(pc) \in 4..8 => subtasked = ExpectedSubtasks
  /\ lastCall.op = "create_subtask" =>
       /\ lastCall.kind = "Sub-task"
       /\ lastCall.parent \in StoryKeys
       /\ << lastCall.parent, lastCall.name >> \in subtasked
  /\ (lastCall.op = "create_subtask" /\ lastStatus \in StatusCodes \ {200, 201}) =>
       /\ pc # "exited"
       /\ exit_code \in {-1, 0}

\* C20: the subtask phase issues one create per created story and title
\* of the story's list, in order, with the story's key as parent, and for
\* no other story; the list is the story's own when it has one and the
\* three generic titles otherwise.  Whatever status a create returns, the
\* next one is for the next title of the story or, after its last title,
\* for the first title of the next created story; after the last story
\* the phase is over.
C20_SubtasksPerTemplate ==
  [][ /\ SubtaskCalls'
      /\ (pc = "subtasks" /\ lastStatus' # Raised) =>
           LET titles == ExpectedTitles(created_stories[i].title) IN
           /\ lastCall'.op = "create_subtask"
           /\ lastCall'.parent = created_stories[i].key
           /\ lastCall'.name = titles[j]
           /\ j < Len(titles) => (pc' = "subtasks" /\ i' = i /\ j' = j + 1)
           /\ (j = Len(titles) /\ i < Len(created_stories)) =>
                (pc' = "subtasks" /\ i' = i + 1 /\ j' = 1)
           /\ (j = Len(titles) /\ i = Len(created_stories)) =>
                pc' \in {"sprint1", "attach"} ]_vars

\* C20, witness: the create of the first generic subtask of the fifth
\* created story was answered 400, and the loop is at its second title.
C20_Witness ==
  /\ pc = "subtasks"
  /\ i = 5 /\ j = 2
  /\ lastCall.op = "create_subtask"
  /\ lastCall.name = "Design <title> UI"
  /\ lastCall.parent = created_stories[5].key
  /\ lastStatus = 400
  /\ Len(created_stories) < Len(StoryInput)

(***************************************************************************)
(* C21                                                                     *)
(***************************************************************************)

\* The elements of a list of keys.
KeySet(keys) == { keys[k] : k \in 1..Len(keys) }

\* What holds of the two key lists and of the bulk-add calls issued.
MembershipPartition ==
  /\ (PhaseRank(pc) \in 5..8 /\ attempts["create_sprint"] = 2) =>
       /\ KeySet(sprint1_keys) \cap KeySet(sprint2_keys) = {}
       /\ KeySet(sprint1_keys) \cup KeySet(sprint2_keys) = StoryKeys
       /\ Len(sprint1_keys) + Len(sprint2_keys) = Cardinality(StoryKeys)
  /\ sprinted \subseteq StoryKeys
  /\ attempts["add_to_sprint"] <=
       (IF sprint1 # 0 THEN 1 ELSE 0) + (IF sprint2 # 0 THEN 1 ELSE 0)
  /\ PhaseRank(pc) \in 6..8 =>
       /\ attempts["add_to_sprint"] =
            (IF sprint1 # 0 THEN 1 ELSE 0) + (IF sprint2 # 0 THEN 1 ELSE 0)
       /\ sprinted = (IF sprint1 # 0 THEN KeySet(sprint1_keys) ELSE {})
                        \cup (IF sprint2 # 0 THEN KeySet(sprint2_keys) ELSE {})
       /\ (sprint1 # 0 /\ sprint2 # 0) => sprinted = StoryKeys
  /\ lastCall.op = "add_to_sprint" =>
       /\ lastCall.target # 0
       /\ lastCall.target \in returned["Sprint"]
       /\ lastCall.target \in {sprint1, sprint2}

\* C21: whatever stories were created, the key lists of sprint 1 and
\* sprint 2 are disjoint, without repetition, and together hold exactly
\* the keys of the created stories.  A bulk-add passes only keys no
\* earlier bulk-add passed, so a key is sent at most once, and exactly
\* once when both sprints were created; a bulk-add addresses a sprint
\* whose creation returned an id, and none is issued for a sprint whose
\* creation returned none.
C21_MembershipPartition ==
  [][ /\ MembershipPartition'
      /\ attempts'["add_to_sprint"] # attempts["add_to_sprint"] =>
           /\ KeySet(lastCall'.keys) \cap sprinted = {}
           /\ Len(lastCall'.keys) = Cardinality(KeySet(lastCall'.keys))
           /\ lastCall'.keys = IF lastCall'.target = sprint1 THEN sprint1_keys
                                ELSE sprint2_keys ]_vars

\* C21, witness: both sprints were created and both bulk-adds issued, in
\* a run that did not create every story; each created key was sent.
C21_Witness ==
  /\ lastCall.op = "add_to_sprint"
  /\ lastCall.target = sprint2
  /\ sprint1 # 0
  /\ attempts["add_to_sprint"] = 2
  /\ Len(created_stories) < Len(StoryInput)
  /\ sprint1_keys # <<>> /\ sprint2_keys # <<>>
  /\ sprinted = StoryKeys

(***************************************************************************)
(* C22: under any interleaving of signup, login and verify requests, a     *)
(* session becomes authenticated for a phone only by a verify POST whose   *)
(* submitted OTP equals an OTP that send_otp generated and that USERS      *)
(* stores for that phone at that moment; a verify POST that submits no OTP *)
(* never authenticates.                                                    *)
(***************************************************************************)

\* The step sets session["phone"] of the client.
Authenticates(c) == session'[c] # session[c] /\ session'[c] # NoPhone

C22_OnlyByStoredOtp ==
  [][\A c \in Clients :
       Authenticates(c) =>
         /\ request[c].handler = "verify"
         /\ request[c].phone = session'[c]
         /\ request[c].otp \in Otps
         /\ USERS[request[c].phone] # 0
         /\ objects[USERS[request[c].phone]].otp = request[c].otp]_vars

====
